---- MODULE Spec2Model ----
(***************************************************************************)
(* Model of the schema crate: the Value codec (value.rs), the Schema       *)
(* accessors over a DataEntry (lib.rs) and the two builders (lib.rs,       *)
(* builders.rs).                                                           *)
(*                                                                         *)
(* Representation.  A byte is a number in 0..255 and a blob is a sequence  *)
(* of bytes.  A 64-bit machine word (the payload of I64, U64 and F64, and  *)
(* the length prefix of a string) is kept as its 8 base-256 digits, most   *)
(* significant first, so that every bit pattern is representable; I64 is   *)
(* two's complement and F64 is the IEEE-754 bit pattern.  A String payload *)
(* is its UTF-8 byte sequence.  The build modelled is the one with the     *)
(* "json" feature enabled; a Json payload is a document restricted to      *)
(* null, booleans, unsigned integers and arrays of documents, nested far   *)
(* less deeply than serde_json's recursion limit of 128.                   *)
(***************************************************************************)
EXTENDS Integers, Sequences, FiniteSets, TLC

VARIABLES
  phase,     \* where the program is: "Start", "SchemaBuilder", "Schema", "EntryBuilder",
             \* "Entry", "Panicked" (and "Codec" when the codec is run on its own)
  sbFields,  \* SchemaBuilder.fields
  sbLog,     \* history: the add_field calls that returned, in order
  schema,    \* Schema.fields
  ebFields,  \* EntryBuilder.fields
  ebLog,     \* history: for each name, the blob of the last set call that named it
  entry,     \* DataEntry.fields
  origin,    \* history: what made the entry, "EntryBuilder" or "from_fields"
  last       \* the last call: its name, its arguments and what it returned

vars == <<phase, sbFields, sbLog, schema, ebFields, ebLog, entry, origin, last>>

(***************************************************************************)
(* Bounds of the model.                                                    *)
(***************************************************************************)
MaxFields == 2
MaxBlobs == 2

(***************************************************************************)
(* Bytes and words.                                                        *)
(***************************************************************************)
Reverse(s) == [i \in 1..Len(s) |-> s[Len(s) + 1 - i]]

NatDigits(n) ==
  <<0, 0, 0, 0, (n \div 16777216) % 256, (n \div 65536) % 256, (n \div 256) % 256, n % 256>>

\* The 64-bit two's complement word of a small integer, most significant byte first.
Word(n) ==
  IF n >= 0 THEN NatDigits(n)
  ELSE [i \in 1..8 |-> 255 - NatDigits((0 - n) - 1)[i]]

ValueType == {"String", "F64", "I64", "U64", "Bool", "Json"}

StringV(s) == [tag |-> "String", v |-> s]
F64V(bits) == [tag |-> "F64", v |-> bits]
I64V(n) == [tag |-> "I64", v |-> Word(n)]
U64V(n) == [tag |-> "U64", v |-> Word(n)]
BoolV(b) == [tag |-> "Bool", v |-> b]
JsonV(doc) == [tag |-> "Json", v |-> doc]

JNull == [k |-> "null"]
JBool(b) == [k |-> "bool", b |-> b]
JNum(n) == [k |-> "num", n |-> n]
JArr(items) == [k |-> "arr", items |-> items]

\* f64 bit patterns
F64One == <<63, 240, 0, 0, 0, 0, 0, 0>>
F64NaN == <<127, 248, 0, 0, 0, 0, 0, 0>>
F64NegZero == <<128, 0, 0, 0, 0, 0, 0, 0>>
F64Zero == <<0, 0, 0, 0, 0, 0, 0, 0>>

f64_is_nan(w) ==
  /\ w[1] % 128 = 127
  /\ w[2] \div 16 = 15
  /\ (w[2] % 16 # 0 \/ \E i \in 3..8 : w[i] # 0)

f64_is_zero(w) == w[1] % 128 = 0 /\ \A i \in 2..8 : w[i] = 0

\* f64's == : a NaN equals nothing, the two zeroes are equal.
f64_eq(a, b) ==
  /\ ~f64_is_nan(a)
  /\ ~f64_is_nan(b)
  /\ (a = b \/ (f64_is_zero(a) /\ f64_is_zero(b)))

\* #[derive(PartialEq)] on Value: same variant and equal payloads.
value_eq(a, b) ==
  /\ a.tag = b.tag
  /\ IF a.tag = "F64" THEN f64_eq(a.v, b.v) ELSE a.v = b.v

(***************************************************************************)
(* Results.                                                                *)
(***************************************************************************)
Ok(v) == [kind |-> "Ok", val |-> v]
OkUnit == [kind |-> "Ok"]
DecodeError == [kind |-> "Err", err |-> "bincode"]
EncodingError == [kind |-> "Err", err |-> "EncodingError"]
NoSuchField(n) == [kind |-> "Err", err |-> "NoSuchField", name |-> n]
Panic == [kind |-> "Panic"]

(***************************************************************************)
(* serde_json on the modelled documents.                                   *)
(***************************************************************************)
RECURSIVE DecDigits(_)
DecDigits(n) == IF n < 10 THEN <<48 + n>> ELSE DecDigits(n \div 10) \o <<48 + (n % 10)>>

RECURSIVE json_to_vec(_)
RECURSIVE json_items_to_vec(_)
json_items_to_vec(items) ==
  IF items = <<>> THEN <<>>
  ELSE IF Len(items) = 1 THEN json_to_vec(items[1])
  ELSE json_to_vec(items[1]) \o <<44>> \o json_items_to_vec(Tail(items))

json_to_vec(doc) ==
  IF doc.k = "null" THEN <<110, 117, 108, 108>>
  ELSE IF doc.k = "bool" THEN
    (IF doc.b THEN <<116, 114, 117, 101>> ELSE <<102, 97, 108, 115, 101>>)
  ELSE IF doc.k = "num" THEN DecDigits(doc.n)
  ELSE <<91>> \o json_items_to_vec(doc.items) \o <<93>>

JsonWs == {32, 9, 10, 13}
JsonDigit == 48..57

RECURSIVE skip_ws(_)
skip_ws(s) == IF s # <<>> /\ s[1] \in JsonWs THEN skip_ws(Tail(s)) ELSE s

HasPrefix(s, p) == Len(s) >= Len(p) /\ SubSeq(s, 1, Len(p)) = p
Drop(s, n) == SubSeq(s, n + 1, Len(s))

ParseErr == [ok |-> FALSE]
ParseOk(doc, rest) == [ok |-> TRUE, doc |-> doc, rest |-> rest]

RECURSIVE parse_digits(_, _)
parse_digits(acc, s) ==
  IF s # <<>> /\ s[1] \in JsonDigit THEN parse_digits(acc * 10 + (s[1] - 48), Tail(s))
  ELSE ParseOk(JNum(acc), s)

parse_number(s) ==
  IF s[1] = 48 THEN
    (IF Len(s) >= 2 /\ s[2] \in JsonDigit THEN ParseErr ELSE ParseOk(JNum(0), Tail(s)))
  ELSE parse_digits(0, s)

RECURSIVE parse_value(_)
RECURSIVE parse_items(_, _)
\* after an element of an array: "," and another element, or "]"
parse_items(acc, s0) ==
  LET s == skip_ws(s0) IN
  IF s = <<>> THEN ParseErr
  ELSE IF s[1] = 93 THEN ParseOk(JArr(acc), Tail(s))
  ELSE IF s[1] = 44 THEN
    LET t == skip_ws(Tail(s)) IN
    IF t # <<>> /\ t[1] = 93 THEN ParseErr
    ELSE LET r == parse_value(t) IN
         IF r.ok THEN parse_items(Append(acc, r.doc), r.rest) ELSE ParseErr
  ELSE ParseErr

parse_value(s0) ==
  LET s == skip_ws(s0) IN
  IF s = <<>> THEN ParseErr
  ELSE IF s[1] = 110 THEN
    (IF HasPrefix(s, <<110, 117, 108, 108>>) THEN ParseOk(JNull, Drop(s, 4)) ELSE ParseErr)
  ELSE IF s[1] = 116 THEN
    (IF HasPrefix(s, <<116, 114, 117, 101>>) THEN ParseOk(JBool(TRUE), Drop(s, 4)) ELSE ParseErr)
  ELSE IF s[1] = 102 THEN
    (IF HasPrefix(s, <<102, 97, 108, 115, 101>>) THEN ParseOk(JBool(FALSE), Drop(s, 5)) ELSE ParseErr)
  ELSE IF s[1] \in JsonDigit THEN parse_number(s)
  ELSE IF s[1] = 91 THEN
    LET t == skip_ws(Tail(s)) IN
    IF t # <<>> /\ t[1] = 93 THEN ParseOk(JArr(<<>>), Tail(t))
    ELSE LET r == parse_value(t) IN
         IF r.ok THEN parse_items(<<r.doc>>, r.rest) ELSE ParseErr
  ELSE ParseErr

\* serde_json::from_slice: one value, then only whitespace.
json_from_slice(data) ==
  LET r == parse_value(data) IN
  IF r.ok /\ skip_ws(r.rest) = <<>> THEN r ELSE ParseErr

(***************************************************************************)
(* bincode (fixed-width integers, little endian, trailing bytes allowed).  *)
(***************************************************************************)
RECURSIVE valid_utf8(_)
valid_utf8(s) ==
  IF s = <<>> THEN TRUE
  ELSE
    LET n == Len(s)
        b == s[1]
        cont(i) == i <= n /\ s[i] \in 128..191
        in(i, lo, hi) == i <= n /\ s[i] \in lo..hi
    IN
    IF b < 128 THEN valid_utf8(Tail(s))
    ELSE IF b \in 194..223 THEN cont(2) /\ valid_utf8(Drop(s, 2))
    ELSE IF b = 224 THEN in(2, 160, 191) /\ cont(3) /\ valid_utf8(Drop(s, 3))
    ELSE IF b \in (225..236) \cup {238, 239} THEN cont(2) /\ cont(3) /\ valid_utf8(Drop(s, 3))
    ELSE IF b = 237 THEN in(2, 128, 159) /\ cont(3) /\ valid_utf8(Drop(s, 3))
    ELSE IF b = 240 THEN in(2, 144, 191) /\ cont(3) /\ cont(4) /\ valid_utf8(Drop(s, 4))
    ELSE IF b \in 241..243 THEN cont(2) /\ cont(3) /\ cont(4) /\ valid_utf8(Drop(s, 4))
    ELSE IF b = 244 THEN in(2, 128, 143) /\ cont(3) /\ cont(4) /\ valid_utf8(Drop(s, 4))
    ELSE FALSE

\* bincode::serialize of a host value: String, f64, i64, u64, bool, i32.
bincode_serialize(hv) ==
  IF hv.tag = "String" THEN Reverse(Word(Len(hv.v))) \o hv.v
  ELSE IF hv.tag = "Bool" THEN (IF hv.v THEN <<1>> ELSE <<0>>)
  ELSE IF hv.tag = "I32" THEN SubSeq(Reverse(hv.v), 1, 4)
  ELSE Reverse(hv.v)

\* bincode::deserialize::<u64 | i64 | f64>
bincode_deserialize_word(data) ==
  IF Len(data) < 8 THEN DecodeError ELSE Ok(Reverse(SubSeq(data, 1, 8)))

\* bincode::deserialize::<bool>
bincode_deserialize_bool(data) ==
  IF data = <<>> THEN DecodeError
  ELSE IF data[1] = 0 THEN Ok(FALSE)
  ELSE IF data[1] = 1 THEN Ok(TRUE)
  ELSE DecodeError

\* bincode::deserialize::<String>: the length, that many bytes, which must be UTF-8.
bincode_deserialize_string(data) ==
  IF Len(data) < 8 THEN DecodeError
  ELSE IF \E i \in 2..8 : data[i] # 0 THEN DecodeError
  ELSE IF data[1] > Len(data) - 8 THEN DecodeError
  ELSE LET s == SubSeq(data, 9, 8 + data[1]) IN
       IF valid_utf8(s) THEN Ok(s) ELSE DecodeError

(***************************************************************************)
(* Value::serialize_inner and Value::from_bytes.                           *)
(***************************************************************************)
serialize_inner(v) ==
  IF v.tag = "Json" THEN json_to_vec(v.v) ELSE bincode_serialize(v)

\* from_bytes with the payloads of the I64 and U64 arms wrapped in each other's variant
from_bytes_swapped(data, value_type) ==
  IF value_type = "String" THEN
    LET r == bincode_deserialize_string(data) IN
    IF r.kind = "Ok" THEN Ok(StringV(r.val)) ELSE DecodeError
  ELSE IF value_type \in {"F64", "I64", "U64"} THEN
    LET r == bincode_deserialize_word(data) IN
    IF r.kind = "Ok"
    THEN Ok([tag |-> IF value_type = "I64" THEN "U64"
                     ELSE IF value_type = "U64" THEN "I64" ELSE value_type,
             v |-> r.val])
    ELSE DecodeError
  ELSE IF value_type = "Bool" THEN
    LET r == bincode_deserialize_bool(data) IN
    IF r.kind = "Ok" THEN Ok(BoolV(r.val)) ELSE DecodeError
  ELSE
    LET r == json_from_slice(data) IN
    IF r.ok THEN Ok(JsonV(r.doc)) ELSE Panic

from_bytes(data, value_type) ==
  IF value_type = "String" THEN
    LET r == bincode_deserialize_string(data) IN
    IF r.kind = "Ok" THEN Ok(StringV(r.val)) ELSE DecodeError
  ELSE IF value_type \in {"F64", "I64", "U64"} THEN
    LET r == bincode_deserialize_word(data) IN
    IF r.kind = "Ok" THEN Ok([tag |-> value_type, v |-> r.val]) ELSE DecodeError
  ELSE IF value_type = "Bool" THEN
    LET r == bincode_deserialize_bool(data) IN
    IF r.kind = "Ok" THEN Ok(BoolV(r.val)) ELSE DecodeError
  ELSE
    LET r == json_from_slice(data) IN
    IF r.ok THEN Ok(JsonV(r.doc)) ELSE Panic

(***************************************************************************)
(* HashMap<String, _> as a function on the set of its keys.                *)
(***************************************************************************)
EmptyMap == [x \in {} |-> <<>>]
map_insert(m, k, v) == [x \in (DOMAIN m) \cup {k} |-> IF x = k THEN v ELSE m[x]]
map_remove(m, k) == [x \in (DOMAIN m) \ {k} |-> m[x]]

(***************************************************************************)
(* SchemaBuilder.                                                          *)
(***************************************************************************)
HasName(fields, name) == \E i \in 1..Len(fields) : fields[i][1] = name

\* add_field without the scan for the name
add_field_unchecked(fields, name, vtype) == Ok(Append(fields, <<name, vtype>>))

\* SchemaBuilder::add_field: panics on a name already added, appends otherwise.
add_field(fields, name, vtype) ==
  IF HasName(fields, name) THEN Panic ELSE Ok(Append(fields, <<name, vtype>>))

(***************************************************************************)
(* EntryBuilder.                                                           *)
(***************************************************************************)
\* set_field keeping the blob already recorded under the name (entry().or_insert)
EntryBuilder_set_field_keep_first(fields, name, hv) ==
  IF name \in DOMAIN fields THEN fields ELSE map_insert(fields, name, bincode_serialize(hv))

EntryBuilder_set_field(fields, name, hv) == map_insert(fields, name, bincode_serialize(hv))

EntryBuilder_set_field_from_value(fields, name, value) ==
  map_insert(fields, name, serialize_inner(value))

RECURSIVE done_loop(_, _, _)
done_loop(m, sch, acc) ==
  IF sch = <<>> THEN Ok(acc)
  ELSE LET fname == sch[1][1] IN
       IF fname \notin DOMAIN m THEN Panic
       ELSE done_loop(map_remove(m, fname), Tail(sch), Append(acc, m[fname]))

\* EntryBuilder::done (lib.rs) / EntryBuilder::build (builders.rs)
EntryBuilder_done(fields, sch) == done_loop(fields, sch, <<>>)

(***************************************************************************)
(* Schema accessors.                                                       *)
(***************************************************************************)
\* position of the first field called name, 0 when there is none
position(fields, name) ==
  IF HasName(fields, name)
  THEN CHOOSE i \in 1..Len(fields) :
         fields[i][1] = name /\ \A j \in 1..(i - 1) : fields[j][1] # name
  ELSE 0

\* set_field storing the blob in the first slot instead of the slot of the field
set_field_first_slot(fields, e, name, value) ==
  IF Len(e) # Len(fields) THEN [res |-> EncodingError, entry |-> e]
  ELSE LET bytes == serialize_inner(value)
           pos == position(fields, name)
       IN IF pos # 0 THEN [res |-> OkUnit, entry |-> [e EXCEPT ![1] = bytes]]
          ELSE [res |-> NoSuchField(name), entry |-> e]

\* set_field with Vec::insert at the position instead of an assignment to it
set_field_insert(fields, e, name, value) ==
  IF Len(e) # Len(fields) THEN [res |-> EncodingError, entry |-> e]
  ELSE LET bytes == serialize_inner(value)
           pos == position(fields, name)
       IN IF pos # 0
          THEN [res |-> OkUnit,
                entry |-> SubSeq(e, 1, pos - 1) \o <<bytes>> \o SubSeq(e, pos, Len(e))]
          ELSE [res |-> NoSuchField(name), entry |-> e]

\* set_field storing the blob in the first slot before it reports an unknown name
set_field_store_then_fail(fields, e, name, value) ==
  IF Len(e) # Len(fields) THEN [res |-> EncodingError, entry |-> e]
  ELSE LET bytes == serialize_inner(value)
           pos == position(fields, name)
       IN IF pos # 0 THEN [res |-> OkUnit, entry |-> [e EXCEPT ![pos] = bytes]]
          ELSE [res |-> NoSuchField(name),
                entry |-> IF e = <<>> THEN e ELSE [e EXCEPT ![1] = bytes]]

set_field(fields, e, name, value) ==
  IF Len(e) # Len(fields) THEN [res |-> EncodingError, entry |-> e]
  ELSE LET bytes == serialize_inner(value)
           pos == position(fields, name)
       IN IF pos # 0 THEN [res |-> OkUnit, entry |-> [e EXCEPT ![pos] = bytes]]
          ELSE [res |-> NoSuchField(name), entry |-> e]

\* the match on Value::from_bytes shared by the accessors
decoded(r) == IF r.kind = "Err" THEN EncodingError ELSE r

\* get_field reporting a name it did not find as EncodingError
get_field_wrong_error(fields, e, name) ==
  IF Len(e) # Len(fields) THEN EncodingError
  ELSE LET pos == position(fields, name) IN
       IF pos # 0 THEN decoded(from_bytes(e[pos], fields[pos][2]))
       ELSE EncodingError

get_field(fields, e, name) ==
  IF Len(e) # Len(fields) THEN EncodingError
  ELSE LET pos == position(fields, name) IN
       IF pos # 0 THEN decoded(from_bytes(e[pos], fields[pos][2]))
       ELSE NoSuchField(name)

RECURSIVE get_fields_loop(_, _, _, _)
get_fields_loop(fields, e, pos, result) ==
  IF pos > Len(e) THEN Ok(result)
  ELSE LET r == from_bytes(e[pos], fields[pos][2]) IN
       IF r.kind = "Ok"
       THEN get_fields_loop(fields, e, pos + 1, map_insert(result, fields[pos][1], r.val))
       ELSE decoded(r)

\* get_fields starting its loop one blob late
get_fields_skip_first(fields, e) ==
  IF Len(e) # Len(fields) THEN EncodingError
  ELSE get_fields_loop(fields, e, 2, EmptyMap)

get_fields(fields, e) ==
  IF Len(e) # Len(fields) THEN EncodingError
  ELSE get_fields_loop(fields, e, 1, EmptyMap)

RECURSIVE get_fields_as_tuple_loop(_, _, _, _)
get_fields_as_tuple_loop(fields, e, pos, result) ==
  IF pos > Len(e) THEN Ok(result)
  ELSE LET r == from_bytes(e[pos], fields[pos][2]) IN
       IF r.kind = "Ok"
       THEN get_fields_as_tuple_loop(fields, e, pos + 1,
                                     Append(result, <<fields[pos][1], r.val>>))
       ELSE decoded(r)

\* get_fields_as_tuple rejecting only an entry longer than the schema
get_fields_as_tuple_longer_only(fields, e) ==
  IF Len(e) > Len(fields) THEN EncodingError
  ELSE get_fields_as_tuple_loop(fields, e, 1, <<>>)

get_fields_as_tuple(fields, e) ==
  IF Len(e) # Len(fields) THEN EncodingError
  ELSE get_fields_as_tuple_loop(fields, e, 1, <<>>)

RECURSIVE get_fields_with_filter_loop(_, _, _, _, _)
get_fields_with_filter_loop(fields, e, filter, i, result) ==
  IF i > Len(e) THEN Ok(result)
  ELSE LET name == filter[i]
           fpos == position(fields, name)
       IN IF fpos = 0 THEN Panic
          ELSE LET r == from_bytes(e[i], fields[fpos][2]) IN
               IF r.kind = "Ok"
               THEN get_fields_with_filter_loop(fields, e, filter, i + 1,
                                                map_insert(result, name, r.val))
               ELSE decoded(r)

get_fields_with_filter(fields, e, filter) ==
  IF Len(e) # Len(filter) THEN EncodingError
  ELSE get_fields_with_filter_loop(fields, e, filter, 1, EmptyMap)

(***************************************************************************)
(* The inputs the operations are called with.                              *)
(***************************************************************************)
Names == {"a", "b"}

\* the (name, type) pairs add_field and from_parts are called with
FieldChoices ==
  {<<"a", "String">>, <<"a", "Bool">>, <<"b", "F64">>, <<"b", "Json">>}

StrHi == <<104, 105>>

\* the Values Schema::set_field is called with
SetValues ==
  {StringV(StrHi), BoolV(TRUE), F64V(F64One), F64V(F64NaN), I64V(0 - 2),
   JsonV(JArr(<<JNum(1), JBool(TRUE)>>))}

\* the host values EntryBuilder::set_field::<T> is called with
HostValues == {StringV(StrHi), [tag |-> "I32", v |-> Word(7)]}

\* the Values EntryBuilder::set_field_from_value is called with
BuilderValues == {BoolV(FALSE), F64V(F64NegZero), JsonV(JNum(42))}

\* the blobs DataEntry::from_fields is called with
RawBlobs == {<<>>, <<2>>, <<1, 0, 0, 0, 0, 0, 0, 0, 255>>}

SeqsUpTo(S, n) == UNION {[1..k -> S] : k \in 0..n}

NoCall == [op |-> "none"]

(***************************************************************************)
(* The state machine: SchemaBuilder::new or Schema::from_parts, then       *)
(* build_entry or DataEntry::from_fields, then the accessors.  A panic     *)
(* ends the program.                                                       *)
(***************************************************************************)
Init ==
  /\ phase = "Start"
  /\ sbFields = <<>>
  /\ sbLog = <<>>
  /\ schema = <<>>
  /\ ebFields = EmptyMap
  /\ ebLog = EmptyMap
  /\ entry = <<>>
  /\ origin = "none"
  /\ last = NoCall

SchemaBuilderNew ==
  /\ phase = "Start"
  /\ phase' = "SchemaBuilder"
  /\ sbFields' = <<>>
  /\ last' = [op |-> "SchemaBuilder::new"]
  /\ UNCHANGED <<sbLog, schema, ebFields, ebLog, entry, origin>>

AddField ==
  /\ phase = "SchemaBuilder"
  /\ Len(sbFields) < MaxFields
  /\ \E f \in FieldChoices :
       LET r == add_field(sbFields, f[1], f[2]) IN
       /\ last' = [op |-> "add_field", name |-> f[1], vtype |-> f[2], res |-> r.kind]
       /\ IF r.kind = "Panic"
          THEN /\ phase' = "Panicked"
               /\ UNCHANGED <<sbFields, sbLog>>
          ELSE /\ phase' = phase
               /\ sbFields' = r.val
               /\ sbLog' = Append(sbLog, f)
  /\ UNCHANGED <<schema, ebFields, ebLog, entry, origin>>

SchemaBuilderBuild ==
  /\ phase = "SchemaBuilder"
  /\ phase' = "Schema"
  /\ schema' = sbFields
  /\ sbFields' = <<>>
  /\ sbLog' = <<>>
  /\ last' = [op |-> "SchemaBuilder::build"]
  /\ UNCHANGED <<ebFields, ebLog, entry, origin>>

FromParts ==
  /\ phase = "Start"
  /\ \E fields \in SeqsUpTo(FieldChoices, MaxFields) :
       schema' = fields
  /\ phase' = "Schema"
  /\ last' = [op |-> "from_parts"]
  /\ UNCHANGED <<sbFields, sbLog, ebFields, ebLog, entry, origin>>

BuildEntry ==
  /\ phase = "Schema"
  /\ phase' = "EntryBuilder"
  /\ ebFields' = EmptyMap
  /\ ebLog' = EmptyMap
  /\ last' = [op |-> "build_entry"]
  /\ UNCHANGED <<sbFields, sbLog, schema, entry, origin>>

EntryBuilderSetField ==
  /\ phase = "EntryBuilder"
  /\ \E n \in Names, hv \in HostValues :
       /\ ebFields' = EntryBuilder_set_field(ebFields, n, hv)
       /\ ebLog' = [x \in (DOMAIN ebLog) \cup {n} |->
                      IF x = n THEN bincode_serialize(hv) ELSE ebLog[x]]
       /\ last' = [op |-> "EntryBuilder::set_field", name |-> n, value |-> hv]
  /\ UNCHANGED <<phase, sbFields, sbLog, schema, entry, origin>>

EntryBuilderSetFieldFromValue ==
  /\ phase = "EntryBuilder"
  /\ \E n \in Names, v \in BuilderValues :
       /\ ebFields' = EntryBuilder_set_field_from_value(ebFields, n, v)
       /\ ebLog' = [x \in (DOMAIN ebLog) \cup {n} |->
                      IF x = n THEN serialize_inner(v) ELSE ebLog[x]]
       /\ last' = [op |-> "EntryBuilder::set_field_from_value", name |-> n, value |-> v]
  /\ UNCHANGED <<phase, sbFields, sbLog, schema, entry, origin>>

EntryBuilderDone ==
  /\ phase = "EntryBuilder"
  /\ LET r == EntryBuilder_done(ebFields, schema) IN
     /\ last' = [op |-> "done", res |-> r.kind]
     /\ IF r.kind = "Panic"
        THEN phase' = "Panicked" /\ entry' = entry /\ origin' = origin
        ELSE phase' = "Entry" /\ entry' = r.val /\ origin' = "EntryBuilder"
  /\ ebFields' = EmptyMap
  /\ ebLog' = EmptyMap
  /\ UNCHANGED <<sbFields, sbLog, schema>>

FromFields ==
  /\ phase = "Schema"
  /\ \E fields \in SeqsUpTo(RawBlobs, MaxBlobs) :
       entry' = fields
  /\ phase' = "Entry"
  /\ origin' = "from_fields"
  /\ last' = [op |-> "from_fields"]
  /\ UNCHANGED <<sbFields, sbLog, schema, ebFields, ebLog>>

\* the phase after an accessor returned r
After(r) == IF r.kind = "Panic" THEN "Panicked" ELSE "Entry"

SetField ==
  /\ phase = "Entry"
  /\ \E n \in Names, v \in SetValues :
       LET r == set_field(schema, entry, n, v) IN
       /\ entry' = r.entry
       /\ last' = [op |-> "set_field", name |-> n, value |-> v, res |-> r.res]
  /\ UNCHANGED <<phase, sbFields, sbLog, schema, ebFields, ebLog, origin>>

GetField ==
  /\ phase = "Entry"
  /\ \E n \in Names :
       LET r == get_field(schema, entry, n) IN
       /\ last' = [op |-> "get_field", name |-> n, res |-> r]
       /\ phase' = After(r)
  /\ UNCHANGED <<sbFields, sbLog, schema, ebFields, ebLog, entry, origin>>

GetFields ==
  /\ phase = "Entry"
  /\ LET r == get_fields(schema, entry) IN
     /\ last' = [op |-> "get_fields", res |-> r]
     /\ phase' = After(r)
  /\ UNCHANGED <<sbFields, sbLog, schema, ebFields, ebLog, entry, origin>>

GetFieldsAsTuple ==
  /\ phase = "Entry"
  /\ LET r == get_fields_as_tuple(schema, entry) IN
     /\ last' = [op |-> "get_fields_as_tuple", res |-> r]
     /\ phase' = After(r)
  /\ UNCHANGED <<sbFields, sbLog, schema, ebFields, ebLog, entry, origin>>

GetFieldsWithFilter ==
  /\ phase = "Entry"
  /\ \E filter \in SeqsUpTo(Names, MaxBlobs) :
       LET r == get_fields_with_filter(schema, entry, filter) IN
       /\ last' = [op |-> "get_fields_with_filter", filter |-> filter, res |-> r]
       /\ phase' = After(r)
  /\ UNCHANGED <<sbFields, sbLog, schema, ebFields, ebLog, entry, origin>>

Next ==
  \/ SchemaBuilderNew
  \/ AddField
  \/ SchemaBuilderBuild
  \/ FromParts
  \/ BuildEntry
  \/ EntryBuilderSetField
  \/ EntryBuilderSetFieldFromValue
  \/ EntryBuilderDone
  \/ FromFields
  \/ SetField
  \/ GetField
  \/ GetFields
  \/ GetFieldsAsTuple
  \/ GetFieldsWithFilter

Spec == Init /\ [][Next]_vars

(***************************************************************************)
(* Vocabulary of the properties.                                           *)
(***************************************************************************)
UniqueNames(fields) ==
  \A i, j \in 1..Len(fields) : i # j => fields[i][1] # fields[j][1]

FieldNames(fields) == {fields[i][1] : i \in 1..Len(fields)}

\* the declared type of the field called name
TypeOf(fields, name) == fields[position(fields, name)][2]

PrimitiveTypes == {"String", "F64", "I64", "U64", "Bool"}

IsNaN(v) == v.tag = "F64" /\ f64_is_nan(v.v)

\* the entry was built through build_entry() ... done(), every field set
Complete == origin = "EntryBuilder"

Accessors ==
  {"set_field", "get_field", "get_fields", "get_fields_as_tuple", "get_fields_with_filter"}

(***************************************************************************)
(* C1.  Read your write.                                                   *)
(***************************************************************************)
C1_Pre ==
  /\ last.op = "set_field"
  /\ Complete
  /\ UniqueNames(schema)
  /\ HasName(schema, last.name)
  /\ last.value.tag = TypeOf(schema, last.name)

C2_Frame ==
  [][phase = "Entry" =>
       /\ Len(entry') = Len(entry)
       /\ (last'.op = "set_field" /\ last'.res = OkUnit =>
             \A i \in 1..Len(entry) :
               i # position(schema, last'.name) => entry'[i] = entry[i])
       /\ (last'.op # "set_field" => entry' = entry)]_vars

C2_Witness ==
  /\ phase = "Entry"
  /\ last.op = "set_field"
  /\ last.res = OkUnit
  /\ Len(entry) = 2
  /\ position(schema, last.name) = 1
  /\ entry[1] = serialize_inner(last.value)
  /\ entry[2] # entry[1]

(***************************************************************************)
(* C3.  Every field of a complete entry decodes to its declared type.      *)
(***************************************************************************)
\* C3 as stated: for a complete entry e (built through build_entry() with every field
\* set by set_field or set_field_from_value, possibly modified by successful
\* Schema::set_field calls) and every field name n, get_field(e, n) succeeds and the
\* tag of the Value is the declared type of n.
C3_CompleteEntryDecodes ==
  (last.op = "get_field" /\ Complete /\ HasName(schema, last.name)) =>
    /\ last.res.kind = "Ok"
    /\ last.res.val.tag = TypeOf(schema, last.name)

(***************************************************************************)
(* C4.  A name that is not in the schema.                                  *)
(***************************************************************************)
C4_Pre ==
  /\ last.op \in {"get_field", "set_field"}
  /\ ~HasName(schema, last.name)

\* C4 as stated: for a name n not in the schema and any entry whatsoever, get_field and
\* set_field return NoSuchField(n).
C4_Original == C4_Pre => last.res = NoSuchField(last.name)

\* C4 amended: for a name n not in the schema, get_field and set_field return
\* NoSuchField(n) on an entry whose blob count equals the schema's field count, and
\* EncodingError on any other entry.
C4_NoSuchField ==
  C4_Pre =>
    last.res = IF Len(entry) = Len(schema) THEN NoSuchField(last.name) ELSE EncodingError

C4_Witness ==
  /\ C4_Pre
  /\ last.op = "get_field"
  /\ Len(entry) = 1
  /\ Len(schema) = 1
  /\ last.res = NoSuchField(last.name)

(***************************************************************************)
(* C5.  An entry whose blob count is not the schema's field count.         *)
(***************************************************************************)
\* C5 as stated: for an entry whose blob count differs from the number of fields, every
\* accessor, get_fields_with_filter with any name sequence included, returns
\* EncodingError.  (Stated on the calls that return: get_fields_with_filter with a
\* name that is not in the schema terminates the program.)
C5_Original ==
  (last.op \in Accessors /\ Len(entry) # Len(schema) /\ last.res.kind # "Panic") =>
    last.res = EncodingError

\* C5 amended: for an entry whose blob count differs from the number of fields,
\* set_field, get_field, get_fields and get_fields_as_tuple return EncodingError;
\* get_fields_with_filter returns EncodingError when the blob count differs from the
\* length of the name sequence.
C5_LengthMismatch ==
  /\ (last.op \in Accessors \ {"get_fields_with_filter"} /\ Len(entry) # Len(schema)) =>
       last.res = EncodingError
  /\ (last.op = "get_fields_with_filter" /\ Len(entry) # Len(last.filter)) =>
       last.res = EncodingError

C5_Witness ==
  /\ last.op = "get_fields_as_tuple"
  /\ origin = "from_fields"
  /\ entry = <<>>
  /\ Len(schema) = 2
  /\ last.res = EncodingError

(***************************************************************************)
(* C6.  EntryBuilder.                                                      *)
(***************************************************************************)
IsDone == phase = "EntryBuilder" /\ last'.op = "done"

\* some schema field name has no recorded blob
Missing == \E i \in 1..Len(schema) : schema[i][1] \notin DOMAIN ebLog

\* the entry holds, for each field in schema order, the blob last recorded under its name
Built ==
  /\ phase' = "Entry"
  /\ Len(entry') = Len(schema)
  /\ \A i \in 1..Len(schema) : entry'[i] = ebLog[schema[i][1]]

SetsNeverFail ==
  (phase = "EntryBuilder"
     /\ last'.op \in {"EntryBuilder::set_field", "EntryBuilder::set_field_from_value"}) =>
    phase' = "EntryBuilder"

\* C6 as stated: build terminates fatally if some schema field name has no recorded
\* blob and otherwise returns the entry of the most recently recorded blobs in schema
\* order; no set call fails.
C6_Original ==
  [][/\ IsDone => (IF Missing THEN phase' = "Panicked" ELSE Built)
     /\ SetsNeverFail]_vars

\* C6 amended: the same for a schema whose field names are pairwise distinct; for a
\* schema that repeats a field name build always terminates fatally.
C6_Build ==
  [][/\ (IsDone /\ UniqueNames(schema)) =>
          (IF Missing THEN phase' = "Panicked" ELSE Built)
     /\ (IsDone /\ ~UniqueNames(schema)) => phase' = "Panicked"
     /\ SetsNeverFail]_vars

C6_Witness ==
  /\ phase = "Entry"
  /\ last.op = "done"
  /\ Len(schema) = 2
  /\ entry = <<serialize_inner(F64V(F64NegZero)), bincode_serialize(StringV(StrHi))>>

(***************************************************************************)
(* C7.  SchemaBuilder.                                                     *)
(***************************************************************************)
\* C7: the builder's field list has pairwise distinct names and is the list of the
\* accepted add_field calls in their order; an add_field with a name already added
\* terminates the program instead of appending; the Schema build returns is that list.
C7_SchemaBuilder ==
  [][/\ phase' = "SchemaBuilder" => (UniqueNames(sbFields') /\ sbFields' = sbLog')
     /\ (phase = "SchemaBuilder" /\ last'.op = "add_field") =>
          (IF HasName(sbFields, last'.name)
           THEN phase' = "Panicked" /\ sbFields' = sbFields
           ELSE sbFields' = Append(sbFields, <<last'.name, last'.vtype>>))
     /\ (phase = "SchemaBuilder" /\ last'.op = "SchemaBuilder::build") =>
          (schema' = sbLog /\ UniqueNames(schema'))]_vars

C7_Witness ==
  /\ phase = "Schema"
  /\ last.op = "SchemaBuilder::build"
  /\ schema = <<(<<"b", "Json">>), (<<"a", "Bool">>)>>

(***************************************************************************)
(* C10.  get_fields and get_fields_as_tuple.                               *)
(***************************************************************************)
AllDecode ==
  /\ Len(entry) = Len(schema)
  /\ \A i \in 1..Len(entry) : from_bytes(entry[i], schema[i][2]).kind = "Ok"

C10_Pre == Complete /\ UniqueNames(schema) /\ AllDecode

\* C10: with unique field names and a complete entry whose blobs all decode, the keys
\* of get_fields are exactly the field names, and get_fields_as_tuple has one pair per
\* field, the i-th being the i-th field's name and the i-th blob decoded against the
\* i-th field's type.
C10_GetFields ==
  /\ (last.op = "get_fields" /\ C10_Pre) =>
       (last.res.kind = "Ok" /\ DOMAIN last.res.val = FieldNames(schema))
  /\ (last.op = "get_fields_as_tuple" /\ C10_Pre) =>
       /\ last.res.kind = "Ok"
       /\ Len(last.res.val) = Len(schema)
       /\ \A i \in 1..Len(schema) :
            last.res.val[i] = <<schema[i][1], from_bytes(entry[i], schema[i][2]).val>>

C10_Witness ==
  /\ last.op = "get_fields"
  /\ C10_Pre
  /\ Len(schema) = 2
  /\ DOMAIN last.res.val = {"a", "b"}

(***************************************************************************)
(* C11.  get_fields_with_filter with a name that is not in the schema.     *)
(***************************************************************************)
C11_Pre ==
  /\ last.op = "get_fields_with_filter"
  /\ Len(entry) = Len(last.filter)
  /\ \E i \in 1..Len(last.filter) : ~HasName(schema, last.filter[i])

\* C11 as stated: get_fields_with_filter(entry, names), with as many names as the
\* entry has blobs and a name among them that is not in the schema, returns a
\* SchemaError (NoSuchField or EncodingError); it does not terminate the program.
C11_FilterRecoverable ==
  C11_Pre =>
    /\ last.res.kind = "Err"
    /\ last.res.err \in {"NoSuchField", "EncodingError"}

(***************************************************************************)
(* C12.  A failed set_field changes nothing.                               *)
(***************************************************************************)
\* C12: a Schema::set_field call that returns an error, EncodingError for a blob
\* count that differs from the schema's field count or NoSuchField for a name that
\* is not in the schema, leaves the entry as it was: the same number of blobs and
\* every blob byte for byte.
C12_FailedSetFrame ==
  [][(last'.op = "set_field" /\ last'.res.kind = "Err") =>
       /\ entry' = entry
       /\ last'.res =
            (IF Len(entry) # Len(schema) THEN EncodingError
             ELSE NoSuchField(last'.name))]_vars

C12_Witness ==
  /\ phase = "Entry"
  /\ last.op = "set_field"
  /\ last.res = NoSuchField(last.name)
  /\ Len(entry) = Len(schema)
  /\ Len(entry) >= 1
  /\ \A i \in 1..Len(entry) : entry[i] # serialize_inner(last.value)

(***************************************************************************)
(* The codec on its own: serialize_inner on a Value, from_bytes on the     *)
(* bytes it produced or on other bytes, against every declared type.       *)
(***************************************************************************)
CodecValues ==
  {StringV(<<>>), StringV(StrHi), StringV(<<195, 169>>),
   F64V(F64One), F64V(F64NaN), F64V(F64NegZero), F64V(F64Zero),
   I64V(0 - 2), I64V(42), U64V(258), BoolV(TRUE), BoolV(FALSE),
   JsonV(JNull), JsonV(JNum(42)), JsonV(JArr(<<JNum(1), JBool(TRUE)>>)),
   JsonV(JArr(<<JArr(<<>>)>>))}

\* every proper prefix of an encoding
Truncated ==
  UNION {{SubSeq(serialize_inner(v), 1, k) : k \in 0..(Len(serialize_inner(v)) - 1)} :
           v \in CodecValues}

\* "[1,]", "01", "1 2", " [ 1 , true ] ", a bool followed by another byte
OtherBlobs ==
  {<<91, 49, 44, 93>>, <<48, 49>>, <<49, 32, 50>>,
   <<32, 91, 32, 49, 32, 44, 32, 116, 114, 117, 101, 32, 93, 32>>, <<1, 7>>}

CodecBlobs == Truncated \cup RawBlobs \cup OtherBlobs

InitCodec ==
  /\ phase = "Codec"
  /\ sbFields = <<>>
  /\ sbLog = <<>>
  /\ schema = <<>>
  /\ ebFields = EmptyMap
  /\ ebLog = EmptyMap
  /\ entry = <<>>
  /\ origin = "none"
  /\ last = NoCall

CodecSerialize ==
  /\ phase = "Codec"
  /\ \E v \in CodecValues :
       last' = [op |-> "serialize_inner", value |-> v, data |-> serialize_inner(v)]
  /\ UNCHANGED <<phase, sbFields, sbLog, schema, ebFields, ebLog, entry, origin>>

\* from_bytes on the bytes serialize_inner has just returned
CodecFromBytes ==
  /\ phase = "Codec"
  /\ last.op = "serialize_inner"
  /\ \E t \in ValueType :
       LET r == from_bytes(last.data, t) IN
       /\ last' = [op |-> "from_bytes", src |-> "serialize_inner", value |-> last.value,
                   data |-> last.data, type |-> t, res |-> r]
       /\ phase' = IF r.kind = "Panic" THEN "Panicked" ELSE phase
  /\ UNCHANGED <<sbFields, sbLog, schema, ebFields, ebLog, entry, origin>>

\* from_bytes on bytes from elsewhere
CodecFromRaw ==
  /\ phase = "Codec"
  /\ \E data \in CodecBlobs, t \in ValueType :
       LET r == from_bytes(data, t) IN
       /\ last' = [op |-> "from_bytes", src |-> "raw", data |-> data, type |-> t, res |-> r]
       /\ phase' = IF r.kind = "Panic" THEN "Panicked" ELSE phase
  /\ UNCHANGED <<sbFields, sbLog, schema, ebFields, ebLog, entry, origin>>

NextCodec ==
  \/ CodecSerialize
  \/ CodecFromBytes
  \/ CodecFromRaw

SpecCodec == InitCodec /\ [][NextCodec]_vars

(***************************************************************************)
(* C8.  Value codec round trip.                                            *)
(***************************************************************************)
IsRoundTrip ==
  /\ last.op = "from_bytes"
  /\ last.src = "serialize_inner"
  /\ last.value.tag \in PrimitiveTypes
  /\ last.type = last.value.tag

\* C8 as stated: for every Value v of a primitive tag t,
\* from_bytes(v.serialize_inner(), t) is Ok of a Value equal (==) to v.
C8_Original ==
  IsRoundTrip => (last.res.kind = "Ok" /\ value_eq(last.res.val, last.value))

\* C8 amended: for every Value v of a primitive tag t, from_bytes(v.serialize_inner(), t)
\* is Ok of a Value with v's tag and v's payload bit for bit; it is equal (==) to v
\* unless v is an F64 NaN, which is equal to no Value, itself included.
C8_RoundTrip ==
  IsRoundTrip =>
    /\ last.res.kind = "Ok"
    /\ last.res.val = last.value
    /\ (value_eq(last.res.val, last.value) <=> ~IsNaN(last.value))

C8_Witness ==
  /\ IsRoundTrip
  /\ last.value = StringV(<<195, 169>>)
  /\ last.res = Ok(last.value)

(***************************************************************************)
(* C9.  from_bytes never terminates the program.                           *)
(***************************************************************************)
\* C9 as stated: from_bytes(bytes, declared_type), for every byte sequence and every
\* declared type, Json included, returns a Value of the declared type or a decode
\* error; it never terminates the program.
C9_FromBytesTotal ==
  last.op = "from_bytes" =>
    \/ last.res.kind = "Ok" /\ last.res.val.tag = last.type
    \/ last.res = DecodeError

====
